---- MODULE Spec2Model ----
(***************************************************************************)
(* Model of the bank-statement normalization engine of wky-report          *)
(* (backend/utils.py, backend/main.py).                                     *)
(*                                                                         *)
(* Text is modelled as a sequence of characters, one string token per      *)
(* character.  Hangul syllables are written with their romanization        *)
(* ("geo","rae","il","si" is the four-syllable label of the date-time      *)
(* column), Latin letters keep their case.                                  *)
(***************************************************************************)
EXTENDS Integers, Sequences, FiniteSets, TLC

VARIABLES
    \* ---- classification (apply_rules / load_rules) ----
    table,      \* public.category_rules joined with categories: the stored rules
    row,        \* the record handed to apply_rules
    rules,      \* the list handed to apply_rules
    via,        \* how that list was obtained: "load_rules" or "direct"
    result,     \* what apply_rules returned
    rpc,        \* position: "start", "loaded", "done"
    \* ---- fingerprinting (make_fingerprint) ----
    fpArgs,     \* the five arguments of a first call
    fpArgs2,    \* the arguments of a second call
    fpChanged,  \* the argument in which the second call differs, "none" before it
    fp1,        \* the digest of the first call
    fp2,        \* the digest of the second call
    fpc,        \* position: "start", "one", "two"
    \* ---- unification and upload (unify_columns, upload_file) ----
    raw_df,        \* raw_df, the table load_spreadsheet returned
    branchHint, \* the `branch` form field, None when not sent
    woori,      \* what parse_woori_excel returned or raised
    kb,         \* what parse_kb_excel returned or raised
    hdr,        \* idx of the generic fallback from 1, 0 for None, -1 before it ran
    unified,    \* what unify_columns returned or raised
    records,    \* the rows upload_file goes on to store
    response,   \* the HTTP status of upload_file, 0 before it answers
    upc,        \* position in upload_file / unify_columns
    \* ---- loading (load_spreadsheet) ----
    filename,   \* the filename argument
    works,      \* the decoders that parse the content without raising
    tried,      \* the decoders attempted so far, in order
    errors,     \* the `errors` list
    lres,       \* what load_spreadsheet returned or raised
    lpc,        \* position: the block about to run (1..8), 9 at the final raise,
                \* 0 when no call is running
    \* ---- the stored tables (upload_file, categorize_manual) ----
    upload_batches,     \* public.upload_batches, in insertion order
    bank_transactions,  \* public.bank_transactions, in insertion order
    transaction_tags,   \* public.transaction_tags, one row per transaction_id
    tx_seq,             \* the last value of the id sequence of bank_transactions
    request,            \* the request of the last operation
    reply,              \* its answer
    ops                 \* the requests served so far, -1 when none is served

rulesVars == <<table, row, rules, via, result, rpc>>

fpVars == <<fpArgs, fpArgs2, fpChanged, fp1, fp2, fpc>>

loadVars == <<filename, works, tried, errors, lres, lpc>>

unifyVars == <<raw_df, branchHint, woori, kb, hdr, unified, records, response, upc>>

storeVars ==
    <<upload_batches, bank_transactions, transaction_tags, tx_seq, request, reply, ops>>

vars == <<rulesVars, fpVars, loadVars, unifyVars, storeVars>>

-----------------------------------------------------------------------------
(* Python values that are not text.                                        *)

\* None, as a value of a text-valued field
None == <<"None">>

\* float("nan"), the value pandas gives a missing cell
NaN == <<"NaN">>

-----------------------------------------------------------------------------
(* Text helpers.                                                           *)

\* str.lower() on one character
LowerChar(c) ==
    CASE c = "A" -> "a"
      [] c = "B" -> "b"
      [] c = "C" -> "c"
      [] c = "D" -> "d"
      [] c = "E" -> "e"
      [] c = "I" -> "i"
      [] c = "N" -> "n"
      [] c = "R" -> "r"
      [] c = "T" -> "t"
      [] c = "X" -> "x"
      [] OTHER -> c

\* str.lower()
LowerStr(s) == [i \in 1..Len(s) |-> LowerChar(s[i])]

\* Python's `k in s` on strings
Contains(k, s) ==
    \E i \in 0..(Len(s) - Len(k)) : SubSeq(s, i + 1, i + Len(k)) = k

\* _safe_lower
SafeLower(v) ==
    IF v = None \/ v = NaN THEN <<>> ELSE LowerStr(v)

-----------------------------------------------------------------------------
(* Rule engine.                                                            *)

\* "미분류", the default category name
Uncategorized == "Uncategorized"

\* (r.get("target") or "any").lower(), on the target spellings of the model
TargetOf(r) ==
    CASE r.target \in {"None", ""} -> "any"
      [] r.target = "VENDOR" -> "vendor"
      [] r.target = "Memo" -> "memo"
      [] OTHER -> r.target

\* the `hit` expression of apply_rules, for a rule with keyword kw (lowered)
RuleHit_wrongField(r, rw) ==
    LET kw == SafeLower(r.keyword)
        tgt == TargetOf(r)
        desc == SafeLower(rw.description)
        memo == SafeLower(rw.memo)
        vendor == SafeLower(rw.vendor_normalized)
    IN  \/ (tgt = "description" /\ Contains(kw, desc))
        \/ (tgt = "memo" /\ Contains(kw, memo))
        \/ (tgt = "vendor" /\ Contains(kw, desc))
        \/ (tgt = "any" /\ (Contains(kw, desc) \/ Contains(kw, memo) \/ Contains(kw, vendor)))

RuleHit(r, rw) ==
    LET kw == SafeLower(r.keyword)
        tgt == TargetOf(r)
        desc == SafeLower(rw.description)
        memo == SafeLower(rw.memo)
        vendor == SafeLower(rw.vendor_normalized)
    IN  \/ (tgt = "description" /\ Contains(kw, desc))
        \/ (tgt = "memo" /\ Contains(kw, memo))
        \/ (tgt = "vendor" /\ Contains(kw, vendor))
        \/ (tgt = "any" /\ (Contains(kw, desc) \/ Contains(kw, memo) \/ Contains(kw, vendor)))

\* the default `result` dict of apply_rules
DefaultResult ==
    [category |-> Uncategorized, category_l1 |-> "None", category_l2 |-> "None",
     category_l3 |-> "None", is_fixed |-> FALSE]

\* Python truthiness of an optional name
Truthy(n) == n # "None" /\ n # ""

\* the result.update(...) of apply_rules for the matching rule r
RuleResult(r) ==
    [category |->
        IF Truthy(r.category) THEN r.category
        ELSE IF Truthy(r.category_l3) THEN r.category_l3
        ELSE IF Truthy(r.category_l2) THEN r.category_l2
        ELSE IF Truthy(r.category_l1) THEN r.category_l1
        ELSE Uncategorized,
     category_l1 |-> r.category_l1,
     category_l2 |-> r.category_l2,
     category_l3 |-> r.category_l3,
     is_fixed |-> r.is_fixed]

\* the for-loop of apply_rules from position i on
RECURSIVE ScanRules(_, _, _)
ScanRules(rw, rs, i) ==
    IF i > Len(rs) THEN DefaultResult
    ELSE IF SafeLower(rs[i].keyword) = <<>> THEN ScanRules(rw, rs, i + 1)
    ELSE IF RuleHit(rs[i], rw) THEN RuleResult(rs[i])
    ELSE ScanRules(rw, rs, i + 1)

\* a scan that lets the last matching rule overwrite the result
RECURSIVE ScanRulesLast(_, _, _)
ScanRulesLast(rw, rs, i) ==
    IF i < 1 THEN DefaultResult
    ELSE IF SafeLower(rs[i].keyword) # <<>> /\ RuleHit(rs[i], rw) THEN RuleResult(rs[i])
    ELSE ScanRulesLast(rw, rs, i - 1)

apply_rules_lastMatch(rw, rs) == ScanRulesLast(rw, rs, Len(rs))

apply_rules(rw, rs) == ScanRules(rw, rs, 1)

\* `order by r.priority asc, r.id asc` (the id of a stored rule is its position)
Before(t, i, j) ==
    \/ t[i].priority < t[j].priority
    \/ (t[i].priority = t[j].priority /\ i < j)

\* the position in t of the k-th row of the ordered selection over the ids in S
RECURSIVE OrderIds(_, _)
OrderIds(t, S) ==
    IF S = {} THEN <<>>
    ELSE LET m == CHOOSE i \in S : \A j \in S \ {i} : Before(t, i, j)
         IN  <<m>> \o OrderIds(t, S \ {m})

\* the dict load_rules builds from a selected row
RuleDict(r) ==
    [keyword |-> r.keyword, target |-> r.target, category |-> r.category,
     category_l1 |-> "None", category_l2 |-> "None", category_l3 |-> "None",
     is_fixed |-> r.is_fixed]

\* load_rules without its `where r.is_enabled = true`
load_rules_noFilter(t) ==
    LET ids == OrderIds(t, DOMAIN t)
    IN  [k \in 1..Len(ids) |-> RuleDict(t[ids[k]])]

load_rules(t) ==
    LET ids == OrderIds(t, {i \in DOMAIN t : t[i].is_enabled})
    IN  [k \in 1..Len(ids) |-> RuleDict(t[ids[k]])]

-----------------------------------------------------------------------------
(* Classification: the stored rules, load_rules, apply_rules.              *)

\* most stored rules in a run
MaxRules == 2

\* the rules a run draws its stored rules from
RulePool ==
    << [keyword |-> <<"A">>, target |-> "description", category |-> "cafe",
        category_l1 |-> "None", category_l2 |-> "None", category_l3 |-> "None",
        is_fixed |-> FALSE, priority |-> 1],
       [keyword |-> <<"b">>, target |-> "Memo", category |-> "food",
        category_l1 |-> "None", category_l2 |-> "None", category_l3 |-> "None",
        is_fixed |-> TRUE, priority |-> 2],
       [keyword |-> <<"a", "B">>, target |-> "VENDOR", category |-> "mart",
        category_l1 |-> "None", category_l2 |-> "None", category_l3 |-> "None",
        is_fixed |-> FALSE, priority |-> 1],
       [keyword |-> <<"b">>, target |-> "None", category |-> "None",
        category_l1 |-> "L1", category_l2 |-> "L2", category_l3 |-> "None",
        is_fixed |-> TRUE, priority |-> 2],
       [keyword |-> <<>>, target |-> "any", category |-> "empty",
        category_l1 |-> "None", category_l2 |-> "None", category_l3 |-> "None",
        is_fixed |-> TRUE, priority |-> 1],
       [keyword |-> None, target |-> "description", category |-> "null",
        category_l1 |-> "None", category_l2 |-> "None", category_l3 |-> "None",
        is_fixed |-> TRUE, priority |-> 1],
       [keyword |-> <<"a">>, target |-> "branch", category |-> "other",
        category_l1 |-> "None", category_l2 |-> "None", category_l3 |-> "None",
        is_fixed |-> FALSE, priority |-> 1],
       [keyword |-> <<"a">>, target |-> "vendor", category |-> "shop",
        category_l1 |-> "None", category_l2 |-> "None", category_l3 |-> "None",
        is_fixed |-> TRUE, priority |-> 2] >>

\* a stored rule: a pool rule with its is_enabled flag
StoredRule(p, e) ==
    [keyword |-> RulePool[p].keyword, target |-> RulePool[p].target,
     category |-> RulePool[p].category, category_l1 |-> RulePool[p].category_l1,
     category_l2 |-> RulePool[p].category_l2, category_l3 |-> RulePool[p].category_l3,
     is_fixed |-> RulePool[p].is_fixed, priority |-> RulePool[p].priority,
     is_enabled |-> e]

StoredRules == {StoredRule(p, e) : p \in DOMAIN RulePool, e \in BOOLEAN}

\* the values a record's text field takes
FieldSamples == {None, <<"a">>, <<"A", "b">>, <<"B">>}

StartRules ==
    /\ table \in UNION {[1..n -> StoredRules] : n \in 0..MaxRules}
    /\ row \in [description : FieldSamples, memo : FieldSamples,
                vendor_normalized : FieldSamples]
    /\ rules = <<>>
    /\ via = "none"
    /\ result = DefaultResult
    /\ rpc = "start"

\* upload_file: rules = load_rules(conn)
LoadRules ==
    /\ rpc = "start"
    /\ rules' = load_rules(table)
    /\ via' = "load_rules"
    /\ rpc' = "loaded"
    /\ UNCHANGED <<table, row, result>>

\* a caller that hands apply_rules the stored rules as they are
PassRules ==
    /\ rpc = "start"
    /\ rules' = table
    /\ via' = "direct"
    /\ rpc' = "loaded"
    /\ UNCHANGED <<table, row, result>>

\* rr = apply_rules(row, rules)
ApplyRules ==
    /\ rpc = "loaded"
    /\ result' = apply_rules(row, rules)
    /\ rpc' = "done"
    /\ UNCHANGED <<table, row, rules, via>>

\* the classification variables of a run that classifies nothing
IdleRules ==
    /\ table = <<>>
    /\ row = [description |-> None, memo |-> None, vendor_normalized |-> None]
    /\ rules = <<>>
    /\ via = "none"
    /\ result = DefaultResult
    /\ rpc = "idle"

-----------------------------------------------------------------------------
(* Fingerprinting.                                                         *)

\* whitespace, as str.strip and \s see it
Spaces == {" ", "tab", "nbsp"}

\* str.strip(): leading and trailing whitespace removed
RECURSIVE StripLeft(_)
StripLeft(s) ==
    IF s # <<>> /\ Head(s) \in Spaces THEN StripLeft(Tail(s)) ELSE s

RECURSIVE StripRight(_)
StripRight(s) ==
    IF s # <<>> /\ s[Len(s)] \in Spaces THEN StripRight(SubSeq(s, 1, Len(s) - 1)) ELSE s

Strip(s) == StripRight(StripLeft(s))

\* (v or "").strip().lower()
CanonText(v) == IF v = None THEN <<>> ELSE LowerStr(Strip(v))

\* the decimal digit d as a character
DigitChar(d) ==
    CASE d = 0 -> "0" [] d = 1 -> "1" [] d = 2 -> "2" [] d = 3 -> "3" [] d = 4 -> "4"
      [] d = 5 -> "5" [] d = 6 -> "6" [] d = 7 -> "7" [] d = 8 -> "8" [] d = 9 -> "9"

\* str(n) for a natural number n
RECURSIVE NatStr(_)
NatStr(n) ==
    IF n < 10 THEN <<DigitChar(n)>> ELSE NatStr(n \div 10) \o <<DigitChar(n % 10)>>

\* n / den rounded to the nearest integer, an exact half to the even neighbour:
\* the rounding of float formatting
RoundHalfEven(n, den) ==
    LET q == n \div den
        r == n % den
    IN  IF 2 * r < den THEN q
        ELSE IF 2 * r > den THEN q + 1
        ELSE IF q % 2 = 0 THEN q ELSE q + 1

\* amounts are counted in 1/AmountDen, balances in 1/BalanceDen
AmountDen == 256

BalanceDen == 4

\* f"{float(amount):.2f}", amount = k / AmountDen
Format2(k) ==
    LET mag == IF k < 0 THEN 0 - k ELSE k
        cents == RoundHalfEven(mag * 100, AmountDen)
    IN  (IF k < 0 THEN <<"-">> ELSE <<>>)
        \o NatStr(cents \div 100) \o <<".">>
        \o <<DigitChar((cents % 100) \div 10), DigitChar(cents % 10)>>

\* f"{float(balance):.0f}", balance = k / BalanceDen
Format0(k) ==
    LET mag == IF k < 0 THEN 0 - k ELSE k
    IN  (IF k < 0 THEN <<"-">> ELSE <<>>) \o NatStr(RoundHalfEven(mag, BalanceDen))

\* an optional balance: <<>> is None, <<k>> is k / BalanceDen
NoBalance == <<>>

\* "" if balance is None else f"{float(balance):.0f}"
BalanceText(b) == IF b = NoBalance THEN <<>> ELSE Format0(b[1])

\* tx_date.isoformat(), for day d of January 2024
IsoFormat(d) ==
    <<"2", "0", "2", "4", "-", "0", "1", "-">>
    \o <<DigitChar(d \div 10), DigitChar(d % 10)>>

\* hashlib.sha256(raw).hexdigest(), taken as collision-free: the digest is
\* identified with the text it was computed from
Sha256(raw) == [sha256 |-> raw]

\* a fingerprint that leaves the branch out of the hashed text
make_fingerprint_noBranch(tx_date, amount, description, branch, balance) ==
    Sha256(IsoFormat(tx_date) \o <<"|">> \o Format2(amount) \o <<"|">>
           \o CanonText(description) \o <<"|">> \o <<"|">> \o BalanceText(balance))

make_fingerprint(tx_date, amount, description, branch, balance) ==
    Sha256(IsoFormat(tx_date) \o <<"|">> \o Format2(amount) \o <<"|">>
           \o CanonText(description) \o <<"|">> \o CanonText(branch) \o <<"|">>
           \o BalanceText(balance))

\* the arguments a run draws from
MaxDay == 2

MaxAmount == 3

MaxBalance == 3

DescSamples == {None, <<>>, <<"a">>, <<"A">>, <<" ", "a">>, <<"b">>}

BranchSamples == {None, <<>>, <<"x">>, <<"X", " ">>}

FpArgSets ==
    [date |-> 1..MaxDay,
     amount |-> (0 - MaxAmount)..MaxAmount,
     description |-> DescSamples,
     branch |-> BranchSamples,
     balance |-> {NoBalance} \cup {<<k>> : k \in (0 - MaxBalance)..MaxBalance}]

FpFields == {"date", "amount", "description", "branch", "balance"}

Fingerprint(a) ==
    make_fingerprint(a.date, a.amount, a.description, a.branch, a.balance)

NoDigest == Sha256(<<>>)

StartFp ==
    /\ fpArgs \in [date : FpArgSets.date, amount : FpArgSets.amount,
                   description : FpArgSets.description, branch : FpArgSets.branch,
                   balance : FpArgSets.balance]
    /\ fpArgs2 = fpArgs
    /\ fpChanged = "none"
    /\ fp1 = NoDigest
    /\ fp2 = NoDigest
    /\ fpc = "start"

IdleFp ==
    /\ fpArgs = [date |-> 1, amount |-> 0, description |-> None, branch |-> None,
                 balance |-> NoBalance]
    /\ fpArgs2 = fpArgs
    /\ fpChanged = "none"
    /\ fp1 = NoDigest
    /\ fp2 = NoDigest
    /\ fpc = "idle"

\* fp = make_fingerprint(...) for a row
FirstFingerprint ==
    /\ fpc = "start"
    /\ fp1' = Fingerprint(fpArgs)
    /\ fpc' = "one"
    /\ UNCHANGED <<fpArgs, fpArgs2, fpChanged, fp2>>

\* the same row fingerprinted again
SameFingerprint ==
    /\ fpc = "one"
    /\ fp2' = Fingerprint(fpArgs2)
    /\ fpc' = "two"
    /\ UNCHANGED <<fpArgs, fpArgs2, fpChanged, fp1>>

\* a row that differs from the first in one argument, fingerprinted
ChangedFingerprint ==
    /\ fpc = "one"
    /\ \E f \in FpFields : \E v \in FpArgSets[f] :
          /\ v # fpArgs[f]
          /\ fpArgs2' = [fpArgs EXCEPT ![f] = v]
          /\ fpChanged' = f
    /\ fp2' = Fingerprint(fpArgs2')
    /\ fpc' = "two"
    /\ UNCHANGED <<fpArgs, fp1>>

-----------------------------------------------------------------------------
(* Spreadsheet loader.                                                     *)

\* the filenames a run draws from, with os.path.splitext(name.lower())[1]
FileNames ==
    {"None", "statement", "a.xlsx", "a.XLSX", "a.xlsm", "a.xltx", "a.xltm",
     "a.xls", "a.xlsb", "a.csv", "a.CSV", "a.txt"}

ExtOf(f) ==
    CASE f \in {"None", "statement"} -> ""
      [] f \in {"a.xlsx", "a.XLSX"} -> ".xlsx"
      [] f = "a.xlsm" -> ".xlsm"
      [] f = "a.xltx" -> ".xltx"
      [] f = "a.xltm" -> ".xltm"
      [] f = "a.xls" -> ".xls"
      [] f = "a.xlsb" -> ".xlsb"
      [] f \in {"a.csv", "a.CSV"} -> ".csv"
      [] f = "a.txt" -> ".txt"

\* the try-blocks of load_spreadsheet in program order, named as their
\* error messages name them
Blocks ==
    <<"openpyxl", "xlrd", "pyxlsb", "csv(utf-8-sig)", "csv(cp949)", "csv(euc-kr)",
      "xlsx2csv", "csv-final">>

\* csv tried whatever the extension
BlockApplies_csvAlways(d, ext) ==
    CASE d = "openpyxl" -> ext \in {".xlsx", ".xlsm", ".xltx", ".xltm", ""}
      [] d = "xlrd" -> ext = ".xls"
      [] d = "pyxlsb" -> ext = ".xlsb"
      [] d \in {"csv(utf-8-sig)", "csv(cp949)", "csv(euc-kr)"} -> TRUE
      [] d \in {"xlsx2csv", "csv-final"} -> TRUE

\* the `if ext ...` guarding each block
BlockApplies(d, ext) ==
    CASE d = "openpyxl" -> ext \in {".xlsx", ".xlsm", ".xltx", ".xltm", ""}
      [] d = "xlrd" -> ext = ".xls"
      [] d = "pyxlsb" -> ext = ".xlsb"
      [] d \in {"csv(utf-8-sig)", "csv(cp949)", "csv(euc-kr)"} -> ext = ".csv"
      [] d \in {"xlsx2csv", "csv-final"} -> TRUE

\* an error list that keeps only the latest message
AddError_keepLast(errs, d) == <<d>>

\* errors.append(f"<decoder>: {e}")
AddError(errs, d) == Append(errs, d)

NoTable == [kind |-> "none", by |-> "none", messages |-> <<>>]

StartLoad ==
    /\ filename \in FileNames
    /\ works \in SUBSET {Blocks[i] : i \in DOMAIN Blocks}
    /\ tried = <<>>
    /\ errors = <<>>
    /\ lres = NoTable
    /\ lpc = 1

IdleLoad ==
    /\ filename = "None"
    /\ works = {}
    /\ tried = <<>>
    /\ errors = <<>>
    /\ lres = NoTable
    /\ lpc = 0

\* a block whose `if` is false is passed over
SkipBlock ==
    /\ lpc \in DOMAIN Blocks
    /\ ~BlockApplies(Blocks[lpc], ExtOf(filename))
    /\ lpc' = lpc + 1
    /\ UNCHANGED <<filename, works, tried, errors, lres>>

\* try: return pd.read_...(...)
DecodeReturns ==
    /\ lpc \in DOMAIN Blocks
    /\ BlockApplies(Blocks[lpc], ExtOf(filename))
    /\ Blocks[lpc] \in works
    /\ tried' = Append(tried, Blocks[lpc])
    /\ lres' = [kind |-> "table", by |-> Blocks[lpc], messages |-> <<>>]
    /\ lpc' = 0
    /\ UNCHANGED <<filename, works, errors>>

\* except Exception as e: errors.append(...)
DecodeFails ==
    /\ lpc \in DOMAIN Blocks
    /\ BlockApplies(Blocks[lpc], ExtOf(filename))
    /\ Blocks[lpc] \notin works
    /\ tried' = Append(tried, Blocks[lpc])
    /\ errors' = AddError(errors, Blocks[lpc])
    /\ lpc' = lpc + 1
    /\ UNCHANGED <<filename, works, lres>>

\* raise ValueError("... " + " | ".join(errors))
RaiseAll ==
    /\ lpc = Len(Blocks) + 1
    /\ lres' = [kind |-> "ValueError", by |-> "none", messages |-> errors]
    /\ lpc' = 0
    /\ UNCHANGED <<filename, works, tried, errors>>

-----------------------------------------------------------------------------
(* Raw tables: a sequence of rows, a row a sequence of cells, a cell a text *)
(* or NaN (an empty cell: the loaders read every cell with dtype=str).      *)

\* str(x) of a cell
StrOf(c) == IF c = NaN THEN <<"n", "a", "n">> ELSE c

\* a float: a whole number, or nan
Num(k) == [nan |-> FALSE, v |-> k]

NumNaN == [nan |-> TRUE, v |-> 0]

\* a - b on floats
NumSub(a, b) == IF a.nan \/ b.nan THEN NumNaN ELSE Num(a.v - b.v)

\* x > 0 on floats (false for nan)
Positive(x) == ~x.nan /\ x.v > 0

Digits == {"0", "1", "2", "3", "4", "5", "6", "7", "8", "9"}

DigitVal(c) ==
    CASE c = "0" -> 0 [] c = "1" -> 1 [] c = "2" -> 2 [] c = "3" -> 3 [] c = "4" -> 4
      [] c = "5" -> 5 [] c = "6" -> 6 [] c = "7" -> 7 [] c = "8" -> 8 [] c = "9" -> 9

\* the value of a digit string
RECURSIVE NatOf(_)
NatOf(s) ==
    IF s = <<>> THEN 0 ELSE 10 * NatOf(SubSeq(s, 1, Len(s) - 1)) + DigitVal(s[Len(s)])

\* a text float() reads as a whole number: digits, with an optional sign
IsIntText(s) ==
    LET body == IF s # <<>> /\ s[1] = "-" THEN Tail(s) ELSE s
    IN  body # <<>> /\ \A i \in DOMAIN body : body[i] \in Digits

IntOf(s) == IF s[1] = "-" THEN 0 - NatOf(Tail(s)) ELSE NatOf(s)

IsNanText(s) == LowerStr(s) = <<"n", "a", "n">>

\* whether float(s) returns, and what
FloatOk(s) == IsIntText(s) \/ IsNanText(s)

FloatOf(s) == IF IsNanText(s) THEN NumNaN ELSE Num(IntOf(s))

\* pd.to_datetime(..., errors="coerce") of a cell: the day of an ISO date of
\* January 2024, 0 (NaT) for anything else
NaT == 0

ParseDate(c) ==
    IF /\ c # NaN
       /\ Len(c) = 10
       /\ SubSeq(c, 1, 8) = <<"2", "0", "2", "4", "-", "0", "1", "-">>
       /\ c[9] \in Digits /\ c[10] \in Digits
       /\ 10 * DigitVal(c[9]) + DigitVal(c[10]) \in 1..31
    THEN 10 * DigitVal(c[9]) + DigitVal(c[10])
    ELSE NaT

\* "".join(str(x) for x in row)
RECURSIVE JoinRow(_)
JoinRow(r) == IF r = <<>> THEN <<>> ELSE StrOf(Head(r)) \o JoinRow(Tail(r))

\* df.shape[1]
Width(df) == IF df = <<>> THEN 0 ELSE Len(df[1])

Min(a, b) == IF a < b THEN a ELSE b

\* the first position of name in the column labels, 0 when absent
ColumnOf(cols, name) ==
    IF \E i \in DOMAIN cols : cols[i] = name
    THEN CHOOSE i \in DOMAIN cols : cols[i] = name /\ \A j \in 1..(i - 1) : cols[j] # name
    ELSE 0

\* s with the characters of drop removed
RemoveChars(s, drop) == SelectSeq(s, LAMBDA c : c \notin drop)

-----------------------------------------------------------------------------
(* Bank-specific detectors.                                                *)

\* column labels and signature substrings, one token per Hangul syllable
L_DateTime == <<"geo", "rae", "il", "si">>

L_Type == <<"jeok", "yo">>

L_Deposit == <<"ip", "geum">>

L_Detail == <<"gi", "jae", "nae", "yong">>

L_WooriOut == <<"ji", "geup", "(", "won", ")">>

L_WooriIn == <<"ip", "geum", "(", "won", ")">>

L_WooriBalance == <<"geo", "rae", "hu", " ", "jan", "aek", "(", "won", ")">>

L_Branch == <<"chwi", "geup", "jeom">>

L_Sender == <<"bo", "naen", "bun">>

L_Receiver == <<"bat", "neun", "bun">>

L_Party == <<"bo", "naen", "bun", "/", "bat", "neun", "bun">>

L_KbOut == <<"chul", "geum", "aek", "(", "won", ")">>

L_KbIn == <<"ip", "geum", "aek", "(", "won", ")">>

L_KbBalance == <<"jan", "aek", "(", "won", ")">>

\* rows scanned for a bank's header: range(min(30, len(df)))
BankScanRows == 30

\* the signature test of parse_woori_excel on a row's joined text
WooriSignature(t) ==
    Contains(L_DateTime, t) /\ Contains(L_Type, t) /\ Contains(L_Deposit, t)

\* the signature test of parse_kb_excel
KbSignature(t) ==
    Contains(L_DateTime, t) /\ (Contains(L_Sender, t) \/ Contains(L_Receiver, t))

\* the header_row loops: the first of the scanned rows with the signature,
\* as a position from 1; 0 for header_row None
WooriHeaderRow(df) ==
    LET S == {i \in 1..Min(BankScanRows, Len(df)) : WooriSignature(JoinRow(df[i]))}
    IN  IF S = {} THEN 0 ELSE CHOOSE i \in S : \A j \in S : i <= j

KbHeaderRow(df) ==
    LET S == {i \in 1..Min(BankScanRows, Len(df)) : KbSignature(JoinRow(df[i]))}
    IN  IF S = {} THEN 0 ELSE CHOOSE i \in S : \A j \in S : i <= j

\* [str(x).strip() for x in df.iloc[header_row].tolist()]
HeaderLabels(r) == [i \in DOMAIN r |-> Strip(StrOf(r[i]))]

WooriNeeded ==
    <<L_DateTime, L_Type, L_Detail, L_WooriOut, L_WooriIn, L_WooriBalance, L_Branch>>

KbNeeded == <<L_DateTime, L_Party, L_KbOut, L_KbIn, L_KbBalance>>

\* all(c in df_data.columns for c in needed)
HasAll(cols, needed) ==
    \A k \in DOMAIN needed : ColumnOf(cols, needed[k]) # 0

\* the text handed to astype(float): separators and the won suffix removed,
\* a lone dash or an empty text replaced by "0"
BankNumberText(c) ==
    LET t == RemoveChars(StrOf(c), {",", "won"})
    IN  IF t = <<"-">> \/ t = <<>> THEN <<"0">> ELSE t

\* "IN" if x > 0 else "OUT"
TxType(x) == IF Positive(x) THEN "IN" ELSE "OUT"

\* a detector's answers
NoMatch == [kind |-> "none", rows |-> <<>>, cols |-> {}, error |-> "none"]

Raised(e) == [kind |-> "raise", rows |-> <<>>, cols |-> {}, error |-> e]

Frame(rs, cs) == [kind |-> "frame", rows |-> rs, cols |-> cs, error |-> "none"]

\* the columns of the frames the two detectors return that upload reads
WooriCols == {"date", "description", "amount", "balance", "branch", "tx_type"}

KbCols == {"date", "description", "amount", "balance", "tx_type"}

\* the records of a bank frame: the data rows whose date cell is not NaN,
\* with date, description, branch, balance and in - out
BankRows(data, cols, ld, ldesc, lout, lin, lbal, lbranch) ==
    LET kept == SelectSeq(data, LAMBDA r : r[ColumnOf(cols, ld)] # NaN)
    IN  [k \in DOMAIN kept |->
            LET r == kept[k]
                amount == NumSub(FloatOf(BankNumberText(r[ColumnOf(cols, lin)])),
                                 FloatOf(BankNumberText(r[ColumnOf(cols, lout)])))
            IN  [date |-> ParseDate(r[ColumnOf(cols, ld)]),
                 description |-> r[ColumnOf(cols, ldesc)],
                 amount |-> amount,
                 balance |-> <<FloatOf(BankNumberText(r[ColumnOf(cols, lbal)]))>>,
                 branch |-> IF lbranch = <<>> THEN None ELSE r[ColumnOf(cols, lbranch)],
                 tx_type |-> TxType(amount)]]

\* astype(float) over the three numeric columns returns
NumbersOk(data, cols, numeric) ==
    \A i \in DOMAIN data : \A k \in DOMAIN numeric :
        FloatOk(BankNumberText(data[i][ColumnOf(cols, numeric[k])]))

parse_woori_excel(df) ==
    IF Width(df) < 5 THEN NoMatch
    ELSE LET h == WooriHeaderRow(df)
         IN  IF h = 0 THEN NoMatch
             ELSE LET data == SubSeq(df, h + 1, Len(df))
                      cols == HeaderLabels(df[h])
                  IN  IF ~HasAll(cols, WooriNeeded) THEN NoMatch
                      ELSE IF ~NumbersOk(data, cols, <<L_WooriOut, L_WooriIn, L_WooriBalance>>)
                           THEN Raised("ValueError: could not convert string to float")
                      ELSE Frame(BankRows(data, cols, L_DateTime, L_Detail, L_WooriOut,
                                          L_WooriIn, L_WooriBalance, L_Branch),
                                 WooriCols)

parse_kb_excel(df) ==
    IF Width(df) < 5 THEN NoMatch
    ELSE LET h == KbHeaderRow(df)
         IN  IF h = 0 THEN NoMatch
             ELSE LET data == SubSeq(df, h + 1, Len(df))
                      cols == HeaderLabels(df[h])
                  IN  IF ~HasAll(cols, KbNeeded) THEN NoMatch
                      ELSE IF ~NumbersOk(data, cols, <<L_KbOut, L_KbIn, L_KbBalance>>)
                           THEN Raised("ValueError: could not convert string to float")
                      ELSE Frame(BankRows(data, cols, L_DateTime, L_Party, L_KbOut,
                                          L_KbIn, L_KbBalance, <<>>),
                                 KbCols)

-----------------------------------------------------------------------------
(* Generic header-guessing fallback.                                       *)

\* _HEADER_KEYWORDS: a pattern is a sequence of characters, "<ws*>" standing
\* for \s* and "<any?>" for .?
KW_date ==
    << <<"nal", "jja">>, <<"geo", "rae", "il">>, <<"il", "ja">>,
       <<"seung", "in", "il", "ja">>, <<"geo", "rae", "<ws*>", "si", "gan">> >>

KW_desc ==
    << <<"nae", "yong">>, <<"jeok", "yo">>, <<"geo", "rae", "nae", "yong">>,
       <<"ga", "maeng", "jeom", "myeong">>, <<"bat", "neun", "<any?>", "bun">>,
       <<"bo", "nae", "<any?>", "neun", "<any?>", "bun">> >>

KW_dep ==
    << <<"ip", "geum">>, <<"bat", "eun", "geum", "aek">>,
       <<"c", "r", "e", "d", "i", "t">> >>

KW_wd ==
    << <<"chul", "geum">>, <<"bo", "naen", "geum", "aek">>,
       <<"d", "e", "b", "i", "t">> >>

KW_amt ==
    << <<"geum", "aek">>, <<"yi", "che", "geum", "aek">>,
       <<"geo", "rae", "geum", "aek">> >>

\* the characters \w does not match
NonWord == Spaces \cup {"-", "(", ")", ",", ".", "|", "/", ":", "won-sign"}

\* \b at position j of s: a word character on one side only
Boundary(s, j) ==
    LET before == j > 1 /\ j - 1 <= Len(s) /\ s[j - 1] \notin NonWord
        after == j >= 1 /\ j <= Len(s) /\ s[j] \notin NonWord
    IN  before # after

\* pattern p matches a stretch of s that starts at position j (re.I);
\* "<ws?>" stands for \s?, "<-?>" for \-? and "<b>" for \b
RECURSIVE MatchAt(_, _, _)
MatchAt(p, s, j) ==
    IF p = <<>> THEN TRUE
    ELSE IF Head(p) = "<ws?>"
         THEN \/ MatchAt(Tail(p), s, j)
              \/ (j <= Len(s) /\ s[j] \in Spaces /\ MatchAt(Tail(p), s, j + 1))
    ELSE IF Head(p) = "<-?>"
         THEN \/ MatchAt(Tail(p), s, j)
              \/ (j <= Len(s) /\ s[j] = "-" /\ MatchAt(Tail(p), s, j + 1))
    ELSE IF Head(p) = "<b>"
         THEN Boundary(s, j) /\ MatchAt(Tail(p), s, j)
    ELSE IF Head(p) = "<any?>"
         THEN \/ MatchAt(Tail(p), s, j)
              \/ (j <= Len(s) /\ MatchAt(Tail(p), s, j + 1))
    ELSE IF Head(p) = "<ws*>"
         THEN \/ MatchAt(Tail(p), s, j)
              \/ (j <= Len(s) /\ s[j] \in Spaces /\ MatchAt(p, s, j + 1))
    ELSE j <= Len(s) /\ LowerChar(s[j]) = LowerChar(Head(p)) /\ MatchAt(Tail(p), s, j + 1)

\* re.search(p, s, re.I)
Search(p, s) == \E j \in 1..(Len(s) + 1) : MatchAt(p, s, j)

\* _norm_str
NormStr(x) ==
    Strip([i \in 1..Len(StrOf(x)) |-> IF StrOf(x)[i] = "nbsp" THEN " " ELSE StrOf(x)[i]])

\* _has_kw
HasKw(x, pats) == \E k \in DOMAIN pats : Search(pats[k], NormStr(x))

\* the number of hits one cell adds
CellHits(c) ==
    (IF HasKw(c, KW_date) THEN 1 ELSE 0) + (IF HasKw(c, KW_desc) THEN 1 ELSE 0)
    + (IF HasKw(c, KW_amt) THEN 1 ELSE 0) + (IF HasKw(c, KW_dep) THEN 1 ELSE 0)
    + (IF HasKw(c, KW_wd) THEN 1 ELSE 0)

\* `hits` of a row
RECURSIVE RowHits(_)
RowHits(r) == IF r = <<>> THEN 0 ELSE CellHits(Head(r)) + RowHits(Tail(r))

\* rows scanned for the header: scan_rows
HeaderScanRows == 80

\* a guesser that returns the best-scoring scanned row
GuessHeaderRow_best(df) ==
    LET S == {i \in 1..Min(HeaderScanRows, Len(df)) : RowHits(df[i]) >= 2}
    IN  IF S = {} THEN 0
        ELSE CHOOSE i \in S : \A j \in S :
                \/ RowHits(df[i]) > RowHits(df[j])
                \/ (RowHits(df[i]) = RowHits(df[j]) /\ i <= j)

\* _guess_header_row: the position (from 1) of the first scanned row with
\* hits >= 2, 0 for None
GuessHeaderRow(df) ==
    LET S == {i \in 1..Min(HeaderScanRows, Len(df)) : RowHits(df[i]) >= 2}
    IN  IF S = {} THEN 0 ELSE CHOOSE i \in S : \A j \in S : i <= j

\* _parse_money
ParseMoney(v) ==
    IF v = None \/ v = NaN THEN Num(0)
    ELSE LET t == RemoveChars(v, {"won-sign", "won", ","} \cup Spaces)
         IN  IF t = <<>> THEN Num(0)
             ELSE IF FloatOk(t) THEN FloatOf(t) ELSE Num(0)

\* df.dropna(how="all", axis=1): the columns with a cell that is not NaN
KeptColumns(df) == {c \in 1..Width(df) : \E i \in DOMAIN df : df[i][c] # NaN}

\* the selection of the positions in S of sequence r, in order
RECURSIVE Pick(_, _, _)
Pick(r, S, i) ==
    IF i > Len(r) THEN <<>>
    ELSE (IF i \in S THEN <<r[i]>> ELSE <<>>) \o Pick(r, S, i + 1)

\* df.dropna(how="all", axis=1).dropna(how="all", axis=0).reset_index(drop=True)
DropEmpty(df) ==
    LET keep == KeptColumns(df)
        narrow == [i \in DOMAIN df |-> Pick(df[i], keep, 1)]
    IN  SelectSeq(narrow, LAMBDA r : \E c \in DOMAIN r : r[c] # NaN)

\* a column found only when its label is a keyword itself, not when it
\* contains one
FirstColumn_exact(cols, pats) ==
    LET S == {i \in DOMAIN cols : \E k \in DOMAIN pats : cols[i] = pats[k]}
    IN  IF S = {} THEN 0 ELSE CHOOSE i \in S : \A j \in S : i <= j

\* next((c for c in cols if _has_kw(c, pats)), None): the first matching
\* column, 0 for None
FirstColumn(cols, pats) ==
    LET S == {i \in DOMAIN cols : HasKw(cols[i], pats)}
    IN  IF S = {} THEN 0 ELSE CHOOSE i \in S : \A j \in S : i <= j

\* the three balance labels
L_Balance == <<"jan", "aek">>

L_BalanceAfter == <<"geo", "rae", "hu", " ", "jan", "aek">>

BalanceLabels == <<L_Balance, L_BalanceAfter, L_KbBalance>>

\* the first of the three balance labels that is a column, 0 when none is
BalanceColumn(cols) ==
    LET S == {k \in DOMAIN BalanceLabels : ColumnOf(cols, BalanceLabels[k]) # 0}
    IN  IF S = {} THEN 0
        ELSE ColumnOf(cols, BalanceLabels[CHOOSE k \in S : \A j \in S : k <= j])

GenericCols == {"date", "description", "amount", "balance"}

\* the part of unify_columns after both detectors declined
GenericUnify(raw0) ==
    LET df == DropEmpty(raw0)
        idx == GuessHeaderRow(df)
    IN  IF idx = 0 THEN Raised("HeaderNotFound")
        ELSE
        LET cols == [i \in DOMAIN df[idx] |-> NormStr(df[idx][i])]
            data == SubSeq(df, idx + 1, Len(df))
            col_date == FirstColumn(cols, KW_date)
            col_desc == FirstColumn(cols, KW_desc)
            col_dep == FirstColumn(cols, KW_dep)
            col_wd == FirstColumn(cols, KW_wd)
            col_amt == FirstColumn(cols, KW_amt)
            col_bal == BalanceColumn(cols)
        IN  IF col_date = 0 \/ col_desc = 0 THEN Raised("MissingColumn")
            ELSE IF col_dep = 0 /\ col_wd = 0 /\ col_amt = 0 THEN Raised("NoAmountColumn")
            ELSE
            LET amount(r) ==
                    IF col_dep # 0 \/ col_wd # 0
                    THEN NumSub(IF col_dep # 0 THEN ParseMoney(r[col_dep]) ELSE Num(0),
                                IF col_wd # 0 THEN ParseMoney(r[col_wd]) ELSE Num(0))
                    ELSE ParseMoney(r[col_amt])
                keptIdx == {i \in DOMAIN data :
                              ~(/\ ParseDate(data[i][col_date]) = NaT
                                /\ Strip(StrOf(data[i][col_desc])) = <<>>)}
                kept == Pick(data, keptIdx, 1)
            IN  IF col_bal # 0 /\ Len(kept) # Len(data) /\ Len(kept) > 0
                THEN Raised("ValueError: Length of values does not match length of index")
                ELSE IF col_bal # 0 /\ Len(kept) # Len(data)
                THEN \* a column set on a frame without rows gives it the rows
                     \* of the column: the other columns are filled with NaN
                     Frame([k \in DOMAIN data |->
                              [date |-> NaT,
                               description |-> NaN,
                               amount |-> NumNaN,
                               balance |-> <<ParseMoney(data[k][col_bal])>>,
                               branch |-> None,
                               tx_type |-> ""]],
                           GenericCols)
                ELSE Frame([k \in DOMAIN kept |->
                              [date |-> ParseDate(kept[k][col_date]),
                               description |-> kept[k][col_desc],
                               amount |-> amount(kept[k]),
                               balance |-> IF col_bal # 0
                                           THEN <<ParseMoney(kept[k][col_bal])>>
                                           ELSE <<Num(0)>>,
                               branch |-> None,
                               tx_type |-> ""]],
                           GenericCols)

-----------------------------------------------------------------------------
(* unify_columns and the part of upload_file that completes its rows.      *)

\* float(x) > 0 of upload_file, taken with >= instead
UploadTxType_zeroIn(x) == IF ~x.nan /\ x.v >= 0 THEN "IN" ELSE "OUT"

\* "IN" if float(x) > 0 else "OUT"
UploadTxType(x) == IF Positive(x) THEN "IN" ELSE "OUT"

\* the rows upload_file stores, from the frame unify_columns returned and the
\* branch form field
UploadRows(fr, hint) ==
    LET dated == SelectSeq(fr.rows, LAMBDA r : r.date # NaT)
    IN  [k \in DOMAIN dated |->
            LET r == dated[k]
                bal == IF "balance" \in fr.cols THEN r.balance ELSE <<>>
                br == IF hint # None /\ hint # <<>> THEN hint
                      ELSE IF "branch" \in fr.cols THEN r.branch ELSE None
                tx == IF "tx_type" \in fr.cols THEN r.tx_type ELSE UploadTxType(r.amount)
            IN  [date |-> r.date,
                 description |-> Strip(Strip(StrOf(r.description))),
                 amount |-> r.amount,
                 balance |-> IF bal = <<>> \/ bal[1].nan THEN <<>> ELSE bal,
                 branch |-> IF br = None \/ Strip(StrOf(br)) = <<>> THEN None
                            ELSE Strip(StrOf(br)),
                 tx_type |-> IF tx # "" THEN tx ELSE UploadTxType(r.amount)]]

\* ---- the tables a run draws from ----

D05 == <<"2", "0", "2", "4", "-", "0", "1", "-", "0", "5">>

D06 == <<"2", "0", "2", "4", "-", "0", "1", "-", "0", "6">>

L_Memo == <<"bi", "go">>

\* a header cell: its label, and the kind of cell its column holds
Col(l, k) == [label |-> l, kind |-> k]

Headers ==
    << \* bank A
       <<Col(L_DateTime, "date"), Col(L_Type, "type"), Col(L_Detail, "desc"),
         Col(L_WooriOut, "out"), Col(L_WooriIn, "in"), Col(L_WooriBalance, "bal"),
         Col(L_Branch, "branch")>>,
       \* bank A's signature without its branch column
       <<Col(L_DateTime, "date"), Col(L_Type, "type"), Col(L_Detail, "desc"),
         Col(L_WooriOut, "out"), Col(L_WooriIn, "in"), Col(L_WooriBalance, "bal"),
         Col(L_Memo, "memo")>>,
       \* bank B
       <<Col(L_DateTime, "date"), Col(L_Party, "desc"), Col(L_KbOut, "out"),
         Col(L_KbIn, "in"), Col(L_KbBalance, "bal")>>,
       \* bank B's signature with another balance label
       <<Col(L_DateTime, "date"), Col(L_Party, "desc"), Col(L_KbOut, "out"),
         Col(L_KbIn, "in"), Col(L_Balance, "bal")>>,
       \* date, description, credit, debit, balance
       <<Col(<<"nal", "jja">>, "date"), Col(<<"nae", "yong">>, "desc"),
         Col(<<"ip", "geum">>, "in"), Col(<<"chul", "geum">>, "out"),
         Col(L_Balance, "bal")>>,
       \* date, merchant, amount
       <<Col(<<"il", "ja">>, "date"), Col(<<"ga", "maeng", "jeom", "myeong">>, "desc"),
         Col(<<"geum", "aek">>, "amt")>>,
       \* date, description, credit, amount
       <<Col(<<"geo", "rae", "il">>, "date"), Col(L_Type, "desc"),
         Col(<<"ip", "geum">>, "in"), Col(<<"geum", "aek">>, "amt")>>,
       \* no date column
       <<Col(<<"nae", "yong">>, "desc"), Col(<<"C", "R", "E", "D", "I", "T">>, "in"),
         Col(<<"D", "e", "b", "i", "t">>, "out")>>,
       \* no amount column
       <<Col(<<"nal", "jja">>, "date"), Col(<<"nae", "yong">>, "desc"),
         Col(L_Memo, "memo")>>,
       \* no header at all
       <<Col(<<"t">>, "date"), Col(<<"u">>, "desc"), Col(<<"v">>, "amt")>> >>

\* the cells a data row holds, by kind of column
DataPool ==
    << [date |-> D05, desc |-> <<"a">>, in |-> <<"1", ",", "0", "0", "0", "won">>,
        out |-> <<"-">>, bal |-> <<"5">>, amt |-> <<"7">>,
        type |-> <<"x">>, branch |-> <<"b">>, memo |-> NaN],
       [date |-> D06, desc |-> <<"b">>, in |-> NaN,
        out |-> <<"3">>, bal |-> NaN, amt |-> <<"-", "3">>,
        type |-> <<"x">>, branch |-> NaN, memo |-> NaN],
       [date |-> D05, desc |-> <<"A", " ", "b">>, in |-> <<"3">>,
        out |-> <<"3">>, bal |-> <<"-">>, amt |-> <<"0">>,
        type |-> <<"x">>, branch |-> <<" ">>, memo |-> NaN],
       [date |-> <<"a", "b">>, desc |-> <<"a">>, in |-> <<"4">>,
        out |-> <<"0">>, bal |-> <<"1">>, amt |-> <<"4">>,
        type |-> <<"x">>, branch |-> <<"b">>, memo |-> NaN],
       [date |-> NaN, desc |-> <<" ">>, in |-> <<"2">>,
        out |-> <<"-">>, bal |-> <<"1">>, amt |-> <<"2">>,
        type |-> <<"x">>, branch |-> <<"b">>, memo |-> NaN],
       [date |-> D06, desc |-> <<"a">>, in |-> <<"a", "b">>,
        out |-> <<"1">>, bal |-> <<"1">>, amt |-> <<"x">>,
        type |-> <<"x">>, branch |-> <<"b">>, memo |-> NaN],
       [date |-> NaN, desc |-> NaN, in |-> <<"1">>,
        out |-> NaN, bal |-> <<"2">>, amt |-> <<"1">>,
        type |-> NaN, branch |-> NaN, memo |-> NaN] >>

\* the numbers of title rows above the header
Preambles == {0, 1}

\* most data rows below the header
MaxDataRows == 2

\* the choices of at most n data rows, in the pool's order
Picks(n) ==
    {f \in UNION {[1..m -> DOMAIN DataPool] : m \in 0..n} :
        \A i \in DOMAIN f : \A j \in DOMAIN f : i < j => f[i] <= f[j]}

\* a title row of width w
Filler(w) == [i \in 1..w |-> IF i = 1 THEN <<"t">> ELSE NaN]

\* the rows a table may hold between its title rows and its header
Specials == {"none", "blank", "onehit", "twice", "twoinone"}

SpecialRows(sp, w) ==
    CASE sp = "none" -> <<>>
      [] sp = "blank" -> <<[i \in 1..w |-> NaN]>>
      [] sp = "onehit" -> <<[i \in 1..w |-> IF i = 1 THEN <<"nal", "jja">> ELSE NaN]>>
      [] sp = "twice" ->
            <<[i \in 1..w |-> IF i = 1 THEN <<"geo", "rae", "il">>
                              ELSE IF i = 2 THEN <<"il", "ja">> ELSE NaN]>>
      [] sp = "twoinone" ->
            <<[i \in 1..w |-> IF i = 1 THEN <<"ip", "geum", "geum", "aek">> ELSE NaN]>>

\* k title rows, the special row, the header hd, the data rows picked by f
MakeTable(hd, k, sp, f) ==
    [i \in 1..k |-> Filler(Len(hd))]
    \o SpecialRows(sp, Len(hd))
    \o <<[i \in DOMAIN hd |-> hd[i].label]>>
    \o [n \in DOMAIN f |-> [i \in DOMAIN hd |-> DataPool[f[n]][hd[i].kind]]]

\* a special row comes with no title row above it
Layouts == {<<k, "none">> : k \in Preambles} \cup {<<0, sp>> : sp \in Specials}

ShortTables ==
    {MakeTable(Headers[h], l[1], l[2], f) :
        h \in DOMAIN Headers, l \in Layouts, f \in Picks(MaxDataRows)}

\* tables whose header lies at the edge of a scan: bank A, bank B, generic
LongTables ==
    {MakeTable(Headers[h], k, "none", <<1>>) :
        h \in {1, 3, 5},
        k \in {BankScanRows - 1, BankScanRows, HeaderScanRows - 1, HeaderScanRows}}

NotCalled == [kind |-> "notcalled", rows |-> <<>>, cols |-> {}, error |-> "none"]

StartUnify ==
    /\ raw_df \in ShortTables \cup LongTables
    /\ branchHint = None
    /\ woori = NotCalled
    /\ kb = NotCalled
    /\ hdr = -1
    /\ unified = NotCalled
    /\ records = <<>>
    /\ response = 0
    /\ upc = "woori"

IdleUnify ==
    /\ raw_df = <<>>
    /\ branchHint = None
    /\ woori = NotCalled
    /\ kb = NotCalled
    /\ hdr = -1
    /\ unified = NotCalled
    /\ records = <<>>
    /\ response = 0
    /\ upc = "idle"

\* where unify_columns goes after a detector answered
AfterDetector(res, next) ==
    CASE res.kind = "frame" -> "unified"
      [] res.kind = "raise" -> "raised"
      [] OTHER -> next

\* woori = parse_woori_excel(df); if woori is not None: return woori
DetectWoori ==
    /\ upc = "woori"
    /\ woori' = parse_woori_excel(raw_df)
    /\ unified' = IF woori'.kind = "none" THEN unified ELSE woori'
    /\ upc' = AfterDetector(woori', "kb")
    /\ UNCHANGED <<raw_df, branchHint, kb, hdr, records, response>>

\* kb = parse_kb_excel(df); if kb is not None: return kb
DetectKb ==
    /\ upc = "kb"
    /\ kb' = parse_kb_excel(raw_df)
    /\ unified' = IF kb'.kind = "none" THEN unified ELSE kb'
    /\ upc' = AfterDetector(kb', "generic")
    /\ UNCHANGED <<raw_df, branchHint, woori, hdr, records, response>>

\* the rest of unify_columns
GenericFallback ==
    /\ upc = "generic"
    /\ hdr' = GuessHeaderRow(DropEmpty(raw_df))
    /\ unified' = GenericUnify(raw_df)
    /\ upc' = AfterDetector(unified', "generic")
    /\ UNCHANGED <<raw_df, branchHint, woori, kb, records, response>>

\* upload_file, steps 2 to 4: the rows it goes on to store
CompleteUpload ==
    /\ upc = "unified"
    /\ \E hint \in {None, <<"h">>} :
          /\ branchHint' = hint
          /\ records' = UploadRows(unified, hint)
    /\ response' = 200
    /\ upc' = "done"
    /\ UNCHANGED <<raw_df, woori, kb, hdr, unified>>

\* except Exception as e: return jsonify({"error": ...}), 400
ParseFailed ==
    /\ upc = "raised"
    /\ response' = 400
    /\ upc' = "failed"
    /\ UNCHANGED <<raw_df, branchHint, woori, kb, hdr, unified, records>>

-----------------------------------------------------------------------------
(* upload_file and categorize_manual over the stored tables.               *)

\* NORMALIZE_MAP, in its order: the alternatives of each pattern and its
\* replacement
NORMALIZE_MAP ==
    << [pats |-> << <<"s", "t", "a", "r", "b", "u", "c", "k", "s">>,
                    <<"seu", "ta", "beog", "seu">> >>,
        rep |-> <<"seu", "ta", "beog", "seu">>],
       [pats |-> << <<"g", "s", "2", "5">>, <<"g", "s", "<ws*>", "2", "5">>,
                    <<"ji", "e", "seu", "2", "5">> >>,
        rep |-> <<"G", "S", "2", "5">>],
       [pats |-> << <<"c", "u", "<ws?>", "pyeon", "ui", "jeom">>, <<"c", "u", "<b>">> >>,
        rep |-> <<"C", "U">>],
       [pats |-> << <<"e", "m", "a", "r", "t", "2", "4">>, <<"yi", "ma", "teu", "2", "4">> >>,
        rep |-> <<"yi", "ma", "teu", "2", "4">>],
       [pats |-> << <<"s", "e", "v", "e", "n", "<ws*>", "e", "l", "e", "v", "e", "n">>,
                    <<"se", "beun", "il", "le", "beun">>, <<"7", "<-?>", "1", "1">> >>,
        rep |-> <<"se", "beun", "il", "le", "beun">>] >>

\* normalize_vendor
normalize_vendor(text) ==
    IF text = None THEN <<>>
    ELSE LET s_raw == Strip(StrOf(text))
             s == LowerStr(s_raw)
             S == {i \in DOMAIN NORMALIZE_MAP :
                     \E k \in DOMAIN NORMALIZE_MAP[i].pats : Search(NORMALIZE_MAP[i].pats[k], s)}
         IN  IF S = {} THEN s_raw
             ELSE NORMALIZE_MAP[CHOOSE i \in S : \A j \in S : i <= j].rep

\* unify_columns: bank A, then bank B, then the fallback
unify_columns(df) ==
    LET w == parse_woori_excel(df)
    IN  IF w.kind # "none" THEN w
        ELSE LET k == parse_kb_excel(df)
             IN  IF k.kind # "none" THEN k ELSE GenericUnify(df)

\* load_spreadsheet returns: a block that applies to the filename decodes
\* the content
Loads(f, ok) ==
    \E i \in DOMAIN Blocks : BlockApplies(Blocks[i], ExtOf(f)) /\ Blocks[i] \in ok

\* the try block of upload_file: the frame of unify_columns, or what was raised
ParseUpload(req) ==
    IF ~Loads(req.filename, req.works) THEN Raised("LoadFailure")
    ELSE unify_columns(req.table)

\* fp = make_fingerprint(tx_date, amount, desc, branch, balance) for a row
\* upload_file completed
RowFingerprint(r) ==
    LET bal == IF r.balance = <<>> THEN NoBalance ELSE <<r.balance[1].v * BalanceDen>>
    IN  IF r.amount.nan
        THEN Sha256(IsoFormat(r.date) \o <<"|">> \o <<"n", "a", "n">> \o <<"|">>
                    \o CanonText(r.description) \o <<"|">> \o CanonText(r.branch)
                    \o <<"|">> \o BalanceText(bal))
        ELSE make_fingerprint(r.date, r.amount.v * AmountDen, r.description, r.branch, bal)

\* public.categories, a row's id being its position
categories == <<"cafe", "pay", "Uncategorized">>

\* category_name_to_id, 0 for None
category_name_to_id(name) ==
    IF \E i \in DOMAIN categories : categories[i] = name
    THEN CHOOSE i \in DOMAIN categories : categories[i] = name
    ELSE 0

\* public.category_rules
category_rules ==
    << [keyword |-> <<"seu", "ta", "beog", "seu">>, target |-> "vendor",
        category |-> "cafe", category_l1 |-> "None", category_l2 |-> "None",
        category_l3 |-> "None", is_fixed |-> TRUE, priority |-> 2, is_enabled |-> TRUE],
       [keyword |-> <<"wol">>, target |-> "description",
        category |-> "pay", category_l1 |-> "None", category_l2 |-> "None",
        category_l3 |-> "None", is_fixed |-> FALSE, priority |-> 1, is_enabled |-> FALSE] >>

\* insert into public.transaction_tags ... on conflict (transaction_id) do update
UpsertTag(tags, tid, cat, fixed, memo) ==
    {t \in tags : t.transaction_id # tid}
    \cup {[transaction_id |-> tid, category_id |-> cat, is_fixed |-> fixed, memo |-> memo]}

\* F of the value of v, v being evaluated once
With(v, F(_)) == CHOOSE y \in {F(x) : x \in {v}} : TRUE

\* the stored tables as one value
Stored(b, t, g, q) ==
    [upload_batches |-> b, bank_transactions |-> t, transaction_tags |-> g, tx_seq |-> q]

\* the category and is_fixed the rules give a new transaction
RuleTag(desc, vendor, rs) ==
    LET rr == apply_rules([description |-> desc, memo |-> <<>>,
                           vendor_normalized |-> vendor], rs)
    IN  [category_id |-> category_name_to_id(IF Truthy(rr.category) THEN rr.category
                                             ELSE Uncategorized),
         is_fixed |-> rr.is_fixed]

\* a loop body that tags the stored transaction again when the row is a
\* duplicate
InsertRow_retag(acc, r, batch_id, rs) ==
    LET fp == RowFingerprint(r)
        vendor == normalize_vendor(r.description)
        tag == RuleTag(r.description, vendor, rs)
        id == acc.tx_seq + 1
        same == {t \in DOMAIN acc.bank_transactions :
                    acc.bank_transactions[t].fingerprint = fp}
    IN  IF same # {}
        THEN [acc EXCEPT !.tx_seq = id, !.skipped = @ + 1,
                         !.transaction_tags =
                            UpsertTag(@, acc.bank_transactions[CHOOSE t \in same : TRUE].id,
                                      tag.category_id, tag.is_fixed, None)]
        ELSE [acc EXCEPT
                !.tx_seq = id,
                !.inserted = @ + 1,
                !.bank_transactions =
                    Append(@, [id |-> id, batch_id |-> batch_id, tx_date |-> r.date,
                               description |-> r.description,
                               vendor_normalized |-> vendor, amount |-> r.amount,
                               balance |-> r.balance, tx_type |-> r.tx_type,
                               branch |-> r.branch, fingerprint |-> fp]),
                !.transaction_tags = UpsertTag(@, id, tag.category_id, tag.is_fixed, None)]

\* the body of `for _, r in df.iterrows()`: insert ... on conflict
\* (fingerprint) do nothing, then the tag of a row that was inserted; the id
\* sequence advances also when the insert is skipped
InsertRow(acc, r, batch_id, rs) ==
    LET fp == RowFingerprint(r)
        vendor == normalize_vendor(r.description)
        tag == RuleTag(r.description, vendor, rs)
        id == acc.tx_seq + 1
    IN  IF \E t \in DOMAIN acc.bank_transactions : acc.bank_transactions[t].fingerprint = fp
        THEN [acc EXCEPT !.tx_seq = id, !.skipped = @ + 1]
        ELSE [acc EXCEPT
                !.tx_seq = id,
                !.inserted = @ + 1,
                !.bank_transactions =
                    Append(@, [id |-> id, batch_id |-> batch_id, tx_date |-> r.date,
                               description |-> r.description,
                               vendor_normalized |-> vendor, amount |-> r.amount,
                               balance |-> r.balance, tx_type |-> r.tx_type,
                               branch |-> r.branch, fingerprint |-> fp]),
                !.transaction_tags = UpsertTag(@, id, tag.category_id, tag.is_fixed, None)]

\* the loop over the rows from position i on
RECURSIVE InsertRows(_, _, _, _, _)
InsertRows(acc, rows, i, batch_id, rs) ==
    IF i > Len(rows) THEN acc
    ELSE With(InsertRow(acc, rows[i], batch_id, rs),
              LAMBDA next : InsertRows(next, rows, i + 1, batch_id, rs))

\* what an operation answers
Reply(st, err, b, n, ins, skip, upd) ==
    [status |-> st, error |-> err, batch_id |-> b, row_count |-> n,
     inserted |-> ins, skipped_duplicates |-> skip, updated |-> upd]

\* the stored tables and the answer once the loop has ended in acc
Committed(req, db, batch_id, n, acc) ==
    [db |-> Stored(Append(db.upload_batches,
                          [id |-> batch_id, filename |-> req.filename,
                           branch |-> req.branch, row_count |-> n]),
                   acc.bank_transactions, acc.transaction_tags, acc.tx_seq),
     reply |-> Reply(200, "none", batch_id, n, acc.inserted, acc.skipped, 0)]

\* the `with db() as conn` block of upload_file over the completed rows
StoreRows(req, rows, db) ==
    With(load_rules(category_rules),
         LAMBDA rs :
            With(InsertRows([bank_transactions |-> db.bank_transactions,
                             transaction_tags |-> db.transaction_tags,
                             tx_seq |-> db.tx_seq, inserted |-> 0, skipped |-> 0],
                            rows, 1, Len(db.upload_batches) + 1, rs),
                 LAMBDA acc :
                    Committed(req, db, Len(db.upload_batches) + 1, Len(rows), acc)))

\* upload_file from step 2 on, over the frame fr of unify_columns
StoreUpload(req, fr, db) ==
    With(UploadRows(fr, req.branch), LAMBDA rows : StoreRows(req, rows, db))

\* the batch an upload would create, created before the file is parsed
BatchFirst(req, db) ==
    [db EXCEPT !.upload_batches =
        Append(@, [id |-> Len(@) + 1, filename |-> req.filename,
                   branch |-> req.branch, row_count |-> 0])]

\* an upload that creates its batch before it parses the file
upload_file_batchFirst(req, db) ==
    IF req.precheck # "ok" THEN [db |-> db, reply |-> Reply(400, req.precheck, 0, 0, 0, 0, 0)]
    ELSE With(ParseUpload(req),
              LAMBDA fr :
                 IF fr.kind = "raise"
                 THEN [db |-> BatchFirst(req, db),
                       reply |-> Reply(400, fr.error, 0, 0, 0, 0, 0)]
                 ELSE StoreUpload(req, fr, db))

\* upload_file: the stored tables after it, and its answer
upload_file(req, db) ==
    IF req.precheck # "ok" THEN [db |-> db, reply |-> Reply(400, req.precheck, 0, 0, 0, 0, 0)]
    ELSE With(ParseUpload(req),
              LAMBDA fr :
                 IF fr.kind = "raise"
                 THEN [db |-> db, reply |-> Reply(400, fr.error, 0, 0, 0, 0, 0)]
                 ELSE StoreUpload(req, fr, db))

\* the upserts of categorize_manual from position i on
RECURSIVE ManualTags(_, _, _)
ManualTags(tags, req, i) ==
    IF i > Len(req.transaction_ids) THEN tags
    ELSE ManualTags(UpsertTag(tags, req.transaction_ids[i], req.category_id,
                              req.is_fixed, req.memo),
                    req, i + 1)

\* categorize_manual; category_id 0 is a missing one
categorize_manual(req, db) ==
    IF req.transaction_ids = <<>>
    THEN [db |-> db, reply |-> Reply(400, "transaction_ids required", 0, 0, 0, 0, 0)]
    ELSE IF req.category_id = 0
    THEN [db |-> db, reply |-> Reply(400, "category_id required", 0, 0, 0, 0, 0)]
    ELSE [db |-> [db EXCEPT !.transaction_tags = ManualTags(@, req, 1)],
          reply |-> Reply(200, "none", 0, 0, 0, 0, Len(req.transaction_ids))]

\* ---- the requests a run draws from ----

AllBlocks == {Blocks[i] : i \in DOMAIN Blocks}

StatementHeader ==
    << <<"nal", "jja">>, <<"nae", "yong">>, <<"ip", "geum">>, <<"chul", "geum">> >>

SalaryRow == <<D05, <<"wol", "geup">>, <<"3", "0", "0", "0">>, NaN>>

\* the same transaction written another way
SalaryRowAgain ==
    <<D05, <<" ", "wol", "geup">>, <<"3", ",", "0", "0", "0", "won">>, <<"-">>>>

CafeRow == <<D06, <<"seu", "ta", "beog", "seu">>, NaN, <<"4", "5">>>>

UploadRequest(f, ok, t, b, pre) ==
    [op |-> "upload", filename |-> f, works |-> ok, table |-> t, branch |-> b,
     precheck |-> pre]

UploadRequests ==
    { UploadRequest("a.csv", AllBlocks, <<StatementHeader, SalaryRow, CafeRow>>, None, "ok"),
      UploadRequest("a.csv", AllBlocks, <<StatementHeader, SalaryRow, CafeRow>>, <<"h">>, "ok"),
      UploadRequest("a.xlsx", {"openpyxl"}, <<StatementHeader, SalaryRowAgain>>, None, "ok"),
      UploadRequest("a.txt", {"csv-final"}, <<StatementHeader, SalaryRow, SalaryRowAgain>>,
                    None, "ok"),
      UploadRequest("a.xls", AllBlocks \ {"xlrd", "xlsx2csv", "csv-final"},
                    <<StatementHeader, SalaryRow>>, None, "ok"),
      UploadRequest("a.csv", AllBlocks, MakeTable(Headers[10], 0, "none", <<1>>), None, "ok"),
      UploadRequest("a.csv", AllBlocks, MakeTable(Headers[8], 0, "none", <<1>>), None, "ok"),
      UploadRequest("a.csv", AllBlocks, MakeTable(Headers[9], 0, "none", <<1>>), None, "ok"),
      UploadRequest("a.xlsx", AllBlocks, MakeTable(Headers[1], 1, "none", <<1, 4>>), None, "ok"),
      UploadRequest("a.xlsx", AllBlocks, MakeTable(Headers[3], 0, "none", <<6>>), None, "ok"),
      UploadRequest("a.csv", AllBlocks, MakeTable(Headers[5], 0, "none", <<1, 5>>), None, "ok"),
      UploadRequest("a.csv", AllBlocks, <<StatementHeader, SalaryRow>>, None, "file required"),
      UploadRequest("a.csv", AllBlocks, <<StatementHeader, SalaryRow>>, None, "file too large") }

ManualRequest(ids, cat) ==
    [op |-> "manual", transaction_ids |-> ids, category_id |-> cat,
     is_fixed |-> TRUE, memo |-> <<"m">>]

\* the ids of the stored transactions, in the order they were stored
StoredIds(txs) == [k \in DOMAIN txs |-> txs[k].id]

ManualRequests(txs) ==
    {ManualRequest(<<>>, 2)}
    \cup (IF txs = <<>> THEN {}
          ELSE {ManualRequest(<<txs[1].id>>, 0), ManualRequest(<<txs[1].id>>, 2),
                ManualRequest(StoredIds(txs), 2)})

\* most requests in a run
MaxOps == 3

NoRequest == [op |-> "none"]

StartStore ==
    /\ upload_batches = <<>>
    /\ bank_transactions = <<>>
    /\ transaction_tags = {}
    /\ tx_seq = 0
    /\ request = NoRequest
    /\ reply = Reply(0, "none", 0, 0, 0, 0, 0)
    /\ ops = 0

IdleStore ==
    /\ upload_batches = <<>>
    /\ bank_transactions = <<>>
    /\ transaction_tags = {}
    /\ tx_seq = 0
    /\ request = NoRequest
    /\ reply = Reply(0, "none", 0, 0, 0, 0, 0)
    /\ ops = -1

StoredNow == Stored(upload_batches, bank_transactions, transaction_tags, tx_seq)

\* the stored tables and the answer after an operation gave out
Answer(req, out) ==
    /\ upload_batches' = out.db.upload_batches
    /\ bank_transactions' = out.db.bank_transactions
    /\ transaction_tags' = out.db.transaction_tags
    /\ tx_seq' = out.db.tx_seq
    /\ request' = req
    /\ reply' = out.reply
    /\ ops' = ops + 1

\* POST /uploads/file
UploadFile ==
    /\ ops >= 0 /\ ops < MaxOps
    /\ \E req \in UploadRequests :
          \E out \in {upload_file(req, StoredNow)} : Answer(req, out)

\* POST /categorize/manual
CategorizeManual ==
    /\ ops >= 0 /\ ops < MaxOps
    /\ \E req \in ManualRequests(bank_transactions) :
          \E out \in {categorize_manual(req, StoredNow)} : Answer(req, out)

-----------------------------------------------------------------------------
(* Specifications: one per component, the other components idle.           *)

InitRules == StartRules /\ IdleFp /\ IdleLoad /\ IdleUnify /\ IdleStore

NextRules ==
    (LoadRules \/ PassRules \/ ApplyRules) /\ UNCHANGED <<fpVars, loadVars, unifyVars, storeVars>>

SpecRules == InitRules /\ [][NextRules]_vars

InitFp == StartFp /\ IdleRules /\ IdleLoad /\ IdleUnify /\ IdleStore

NextFp ==
    (FirstFingerprint \/ SameFingerprint \/ ChangedFingerprint)
    /\ UNCHANGED <<rulesVars, loadVars, unifyVars, storeVars>>

SpecFp == InitFp /\ [][NextFp]_vars

InitLoad == StartLoad /\ IdleRules /\ IdleFp /\ IdleUnify /\ IdleStore

NextLoad ==
    (SkipBlock \/ DecodeReturns \/ DecodeFails \/ RaiseAll)
    /\ UNCHANGED <<rulesVars, fpVars, unifyVars, storeVars>>

SpecLoad == InitLoad /\ [][NextLoad]_vars

InitUnify == StartUnify /\ IdleRules /\ IdleFp /\ IdleLoad /\ IdleStore

NextUnify ==
    (DetectWoori \/ DetectKb \/ GenericFallback \/ CompleteUpload \/ ParseFailed)
    /\ UNCHANGED <<rulesVars, fpVars, loadVars, storeVars>>

SpecUnify == InitUnify /\ [][NextUnify]_vars

InitStore == StartStore /\ IdleRules /\ IdleFp /\ IdleLoad /\ IdleUnify

NextStore ==
    (UploadFile \/ CategorizeManual) /\ UNCHANGED <<rulesVars, fpVars, loadVars, unifyVars>>

SpecStore == InitStore /\ [][NextStore]_vars

-----------------------------------------------------------------------------
(* Claims on the rule engine.                                              *)

\* the positions of rs whose rule has a non-empty keyword and hits rw
Hits(rw, rs) ==
    {i \in 1..Len(rs) : SafeLower(rs[i].keyword) # <<>> /\ RuleHit(rs[i], rw)}

\* C1: apply_rules scans the rules in the order given, without re-sorting; the
\* result is that of the first rule with a non-empty keyword whose containment
\* test succeeds, whatever later rules match, and the default when none does.
C1_FirstMatchInGivenOrder ==
    rpc = "done" =>
        LET H == Hits(row, rules)
        IN  IF H = {} THEN result = DefaultResult
            ELSE \E i \in H : (\A j \in H : i <= j) /\ result = RuleResult(rules[i])

\* C1 witness: two rules match, the earlier one has the larger priority number
\* and a different outcome, and the earlier one decided.
C1_Witness ==
    /\ rpc = "done"
    /\ via = "direct"
    /\ Len(rules) = 2
    /\ Hits(row, rules) = {1, 2}
    /\ rules[1].priority > rules[2].priority
    /\ RuleResult(rules[1]) # RuleResult(rules[2])
    /\ result = RuleResult(rules[1])

\* the rule the scan saw at stored position i
Scanned(i) == IF via = "load_rules" THEN RuleDict(table[i]) ELSE table[i]

\* the result is the default with no enabled stored rule matching, or the
\* outcome of an enabled stored rule that matches
ResultFromEnabled ==
    LET E == {i \in DOMAIN table :
                /\ table[i].is_enabled
                /\ SafeLower(table[i].keyword) # <<>>
                /\ RuleHit(table[i], row)}
    IN  IF E = {} THEN result = DefaultResult
        ELSE \E i \in E : result = RuleResult(Scanned(i))

\* C2 (as amended): apply_rules does not look at is_enabled; the disabled rules
\* are left out by load_rules, so a classification made from load_rules' list is
\* never decided by a disabled stored rule.
C2_LoadRulesDropsDisabled ==
    (rpc = "done" /\ via = "load_rules") => ResultFromEnabled

\* C2 witness: a disabled stored rule matches the record, and the result made
\* from load_rules' list is the default.
C2_Witness ==
    /\ rpc = "done"
    /\ via = "load_rules"
    /\ \E i \in DOMAIN table :
          /\ ~table[i].is_enabled
          /\ SafeLower(table[i].keyword) # <<>>
          /\ RuleHit(table[i], row)
          /\ RuleResult(table[i]) # DefaultResult
    /\ result = DefaultResult

\* C2 (as claimed): for every rule list, a rule whose is_enabled is false never
\* decides the result.
C2_AnyListIgnoresDisabled ==
    rpc = "done" => ResultFromEnabled

\* k occurs in s, letters compared without regard to case
InIgnoringCase(k, s) ==
    \E off \in 0..(Len(s) - Len(k)) :
        \A p \in 1..Len(k) : LowerChar(k[p]) = LowerChar(s[off + p])

\* the text of an optional field
TextOf(v) == IF v = None \/ v = NaN THEN <<>> ELSE v

\* the containment test as specified: the keyword in the targeted field only
TargetedMatch(r, rw) ==
    LET k == TextOf(r.keyword)
        t == TargetOf(r)
    IN  /\ k # <<>>
        /\ CASE t = "description" -> InIgnoringCase(k, TextOf(rw.description))
             [] t = "memo" -> InIgnoringCase(k, TextOf(rw.memo))
             [] t = "vendor" -> InIgnoringCase(k, TextOf(rw.vendor_normalized))
             [] t = "any" -> \/ InIgnoringCase(k, TextOf(rw.description))
                             \/ InIgnoringCase(k, TextOf(rw.memo))
                             \/ InIgnoringCase(k, TextOf(rw.vendor_normalized))
             [] OTHER -> FALSE

\* C3: a rule matches iff its keyword occurs, case-insensitively, in the one
\* field its target selects (any of the three for target any); the result is
\* that of the first rule matching in this sense.
C3_TargetedContainment ==
    rpc = "done" =>
        LET M == {i \in 1..Len(rules) : TargetedMatch(rules[i], row)}
        IN  IF M = {} THEN result = DefaultResult
            ELSE \E i \in M : (\A j \in M : i <= j) /\ result = RuleResult(rules[i])

\* C3 witness: the first rule targets the vendor and its keyword occurs only in
\* the description, so it does not match; the second matches a field that
\* spells the keyword in another case.
C3_Witness ==
    /\ rpc = "done"
    /\ Len(rules) = 2
    /\ TargetOf(rules[1]) = "vendor"
    /\ TextOf(rules[1].keyword) # <<>>
    /\ InIgnoringCase(rules[1].keyword, TextOf(row.description))
    /\ ~InIgnoringCase(rules[1].keyword, TextOf(row.vendor_normalized))
    /\ TargetedMatch(rules[2], row)
    /\ ~Contains(rules[2].keyword, TextOf(row.description))
    /\ ~Contains(rules[2].keyword, TextOf(row.memo))
    /\ ~Contains(rules[2].keyword, TextOf(row.vendor_normalized))
    /\ result = RuleResult(rules[2])
    /\ result # DefaultResult

-----------------------------------------------------------------------------
(* Claims on fingerprinting.                                               *)

\* the text a fingerprint argument contributes to the hashed text
CanonField(a, f) ==
    CASE f = "date" -> IsoFormat(a.date)
      [] f = "amount" -> Format2(a.amount)
      [] f = "description" -> CanonText(a.description)
      [] f = "branch" -> CanonText(a.branch)
      [] f = "balance" -> BalanceText(a.balance)

\* C5 (as amended): the same five arguments give the same digest, and changing
\* one argument with the other four fixed changes the digest exactly when it
\* changes that argument's canonical text (description and branch trimmed and
\* lower-cased with absent as empty, amount printed with 2 decimals, balance
\* printed with 0 decimals or empty when absent, date in ISO form).
C5_DigestFollowsCanonicalText ==
    fpc = "two" =>
        IF fpChanged = "none" THEN fp2 = fp1
        ELSE (fp2 # fp1) <=> (CanonField(fpArgs2, fpChanged) # CanonField(fpArgs, fpChanged))

\* C5 witness: one argument was changed to a value with another canonical text
\* and the digest changed.
C5_Witness ==
    /\ fpc = "two"
    /\ fpChanged = "branch"
    /\ CanonField(fpArgs2, "branch") # CanonField(fpArgs, "branch")
    /\ fp2 # fp1

\* C5 (as claimed): changing any single argument changes the digest.
C5_AnyChangeChangesDigest ==
    (fpc = "two" /\ fpChanged # "none") => fp2 # fp1

-----------------------------------------------------------------------------
(* Claims on the loader.                                                   *)

\* the decoders load runs for an extension, in order
DecoderChain(ext) ==
    (CASE ext \in {".xlsx", ".xlsm", ".xltx", ".xltm", ""} -> <<"openpyxl">>
       [] ext = ".xls" -> <<"xlrd">>
       [] ext = ".xlsb" -> <<"pyxlsb">>
       [] ext = ".csv" -> <<"csv(utf-8-sig)", "csv(cp949)", "csv(euc-kr)">>
       [] OTHER -> <<>>)
    \o <<"xlsx2csv", "csv-final">>

\* C6: load returns the table of the first decoder of the chain that succeeds
\* and tries none after it; it raises only when every decoder of the chain
\* was tried and failed, and the one error then carries one message per
\* attempted decoder, in attempt order.
C6_FirstOfChain ==
    LET chain == DecoderChain(ExtOf(filename))
    IN  /\ lres.kind = "table" =>
              /\ tried # <<>>
              /\ tried = SubSeq(chain, 1, Len(tried))
              /\ tried[Len(tried)] \in works
              /\ \A i \in 1..(Len(tried) - 1) : tried[i] \notin works
              /\ lres = [kind |-> "table", by |-> tried[Len(tried)], messages |-> <<>>]
        /\ lres.kind = "ValueError" =>
              /\ tried = chain
              /\ \A i \in DOMAIN tried : tried[i] \notin works
              /\ lres = [kind |-> "ValueError", by |-> "none", messages |-> tried]

\* C6 witness: the first decoder failed, a later one succeeded, and a decoder
\* after that one would have succeeded too but was not tried.
C6_Witness ==
    /\ lres.kind = "table"
    /\ Len(tried) = 2
    /\ tried[1] \notin works
    /\ lres.by = tried[2]
    /\ "csv-final" \in works
    /\ "csv-final" # tried[2]

\* C7 (as amended): load tries the decoder of the claimed extension first
\* (openpyxl for .xlsx, .xlsm, .xltx, .xltm and a missing extension, xlrd for
\* .xls, pyxlsb for .xlsb, the three csv encodings in order for .csv, none for
\* any other extension), and when that fails only the conversion-based
\* fallback and then the last-resort raw-byte decode.
C7_ChainPerExtension ==
    LET chain == DecoderChain(ExtOf(filename))
    IN  /\ Len(tried) <= Len(chain)
        /\ tried = SubSeq(chain, 1, Len(tried))
        /\ lres.kind = "ValueError" => tried = chain

\* C7 witness: an .xlsx file on which everything failed: three attempts.
C7_Witness ==
    /\ lres.kind = "ValueError"
    /\ ExtOf(filename) = ".xlsx"
    /\ tried = <<"openpyxl", "xlsx2csv", "csv-final">>

\* the attempts C7 claims to follow the native decoder, b the binary decode
ClaimedFallThrough(b) ==
    <<b, "csv(utf-8-sig)", "csv(cp949)", "csv(euc-kr)", "xlsx2csv", "csv-final">>

\* C7 (as claimed): after the native decoder failed (or for an unknown or
\* missing extension), a binary-spreadsheet decode, the three csv encodings,
\* the conversion-based fallback and the raw-byte decode are tried in order.
C7_FullFallThrough ==
    lres.kind = "ValueError" =>
        \E b \in {"openpyxl", "xlrd", "pyxlsb"} : \E n \in 0..Len(tried) :
            SubSeq(tried, n + 1, Len(tried)) = ClaimedFallThrough(b)


-----------------------------------------------------------------------------
(* Claims on the detectors, the fallback and the completed rows.           *)

\* the rows of a frame, none when the call gave no frame
RowsOf(fr) == IF fr.kind = "frame" THEN fr.rows ELSE <<>>

SignRule(r) == r.tx_type = (IF Positive(r.amount) THEN "IN" ELSE "OUT")

\* C4: every record, whether a bank detector made it or the fallback made it
\* and upload_file completed it, has tx_type "IN" exactly when its amount is
\* greater than 0 and "OUT" otherwise, an amount of 0 included.
C4_TxTypeFollowsSign ==
    /\ \A k \in DOMAIN records : SignRule(records[k])
    /\ \A k \in DOMAIN RowsOf(woori) : SignRule(woori.rows[k])
    /\ \A k \in DOMAIN RowsOf(kb) : SignRule(kb.rows[k])

IsZero(x) == ~x.nan /\ x.v = 0

\* a stored record of the fallback with amount 0, and a bank record with
\* amount 0 in another run
C4_Witness ==
    /\ upc = "done"
    /\ \E k \in DOMAIN records : IsZero(records[k].amount) /\ records[k].tx_type = "OUT"
    /\ \E k \in DOMAIN records : Positive(records[k].amount) /\ records[k].tx_type = "IN"
    /\ woori.kind = "none"
    /\ kb.kind = "none"

\* C8: a bank detector never raises: whatever the table, it returns records
\* or no-match.
C8_DetectorsNeverRaise == woori.kind # "raise" /\ kb.kind # "raise"

\* the data rows below the header a detector found, with the date cell of each
DateCells(df, h) ==
    IF h = 0 THEN <<>>
    ELSE [k \in 1..(Len(df) - h) |->
            df[h + k][ColumnOf(HeaderLabels(df[h]), L_DateTime)]]

ParsedDates(df, h) ==
    Cardinality({k \in DOMAIN DateCells(df, h) : ParseDate(DateCells(df, h)[k]) # NaT})

\* C9: every record a bank detector returns has a parsed date: a data row
\* whose date cell is missing or unparseable is dropped, the others returned.
C9_DetectorRowsHaveDates ==
    /\ woori.kind = "frame" =>
          /\ \A k \in DOMAIN woori.rows : woori.rows[k].date # NaT
          /\ Len(woori.rows) = ParsedDates(raw_df, WooriHeaderRow(raw_df))
    /\ kb.kind = "frame" =>
          /\ \A k \in DOMAIN kb.rows : kb.rows[k].date # NaT
          /\ Len(kb.rows) = ParsedDates(raw_df, KbHeaderRow(raw_df))

Categories == <<KW_date, KW_desc, KW_amt, KW_dep, KW_wd>>

\* the (cell, category) pairs of a row that match
Score(r) ==
    Cardinality({p \in (DOMAIN r) \X (DOMAIN Categories) :
                    HasKw(r[p[1]], Categories[p[2]])})

\* the categories some cell of a row matches
DistinctCategories(r) ==
    Cardinality({k \in DOMAIN Categories : \E c \in DOMAIN r : HasKw(r[c], Categories[k])})

\* the table the guesser was given
Guessed == DropEmpty(raw_df)

Scanned80 == 1..Min(HeaderScanRows, Len(Guessed))

\* C10 (amended): the guesser returns the first of the first 80 rows with at
\* least 2 hits, a hit being one cell matching one category; no later,
\* higher-scoring row is preferred, a row with fewer than 2 hits is not
\* selected, and no header is reported when no scanned row has 2 hits.
C10_FirstRowWithTwoHits ==
    hdr # -1 =>
        IF hdr = 0 THEN \A i \in Scanned80 : Score(Guessed[i]) < 2
        ELSE /\ hdr \in Scanned80
             /\ Score(Guessed[hdr]) >= 2
             /\ \A j \in 1..(hdr - 1) : Score(Guessed[j]) < 2

\* the guesser selected a row with two cells of one category, above a row
\* that scores higher
C10_Witness ==
    /\ hdr >= 1
    /\ DistinctCategories(Guessed[hdr]) = 1
    /\ \E j \in Scanned80 : j > hdr /\ Score(Guessed[j]) > Score(Guessed[hdr])

\* C10 (as stated): the guesser returns the first of the first 80 rows whose
\* cells hit at least 2 distinct categories; a row hitting one category only
\* is not selected.
C10_TwoDistinctCategories ==
    hdr # -1 =>
        IF hdr = 0 THEN \A i \in Scanned80 : DistinctCategories(Guessed[i]) < 2
        ELSE /\ hdr \in Scanned80
             /\ DistinctCategories(Guessed[hdr]) >= 2
             /\ \A j \in 1..(hdr - 1) : DistinctCategories(Guessed[j]) < 2


-----------------------------------------------------------------------------
(* Claims on the generic fallback's errors, amounts, rows and balances.    *)

\* the first of the first 80 rows of df with 2 hits, 0 when there is none
QualifyingRow(df) ==
    LET S == {i \in 1..Min(HeaderScanRows, Len(df)) : Score(df[i]) >= 2}
    IN  IF S = {} THEN 0 ELSE CHOOSE i \in S : \A j \in S : i <= j

\* the labels of a header row
HeaderCells(r) == [i \in DOMAIN r |-> NormStr(r[i])]

\* the header has a column of the category
HasCol(cells, pats) == \E i \in DOMAIN cells : HasKw(cells[i], pats)

\* the error the three conditions call for, in their order
ExpectedErrorOf(df) ==
    LET q == QualifyingRow(df)
    IN  IF q = 0 THEN "HeaderNotFound"
        ELSE LET cells == HeaderCells(df[q])
             IN  IF ~HasCol(cells, KW_date) \/ ~HasCol(cells, KW_desc)
                 THEN "MissingColumn"
                 ELSE IF /\ ~HasCol(cells, KW_dep)
                         /\ ~HasCol(cells, KW_wd)
                         /\ ~HasCol(cells, KW_amt)
                 THEN "NoAmountColumn"
                 ELSE "none"

ExpectedError == ExpectedErrorOf(Guessed)

StructuralErrors == {"HeaderNotFound", "MissingColumn", "NoAmountColumn"}

\* the fallback has run
FallbackRan == hdr # -1

\* C11: the fallback raises "header not found" exactly when no scanned row
\* qualifies; otherwise "missing required column" exactly when the header
\* lacks a date or a description column; otherwise "no amount column"
\* exactly when it has neither a credit, a debit nor an amount column.
C11_StructuralErrorsInOrder ==
    FallbackRan =>
        LET e == ExpectedError
        IN  IF e = "none"
            THEN ~(unified.kind = "raise" /\ unified.error \in StructuralErrors)
            ELSE unified.kind = "raise" /\ unified.error = e

\* a header with a date and a description column and no amount source
C11_Witness ==
    /\ FallbackRan
    /\ unified.kind = "raise" /\ unified.error = "NoAmountColumn"
    /\ response = 400
    /\ LET cells == HeaderCells(Guessed[hdr])
       IN  HasCol(cells, KW_date) /\ HasCol(cells, KW_desc)


\* what the fallback reads off the table df whose header is row q
GenericView(df, q) ==
    LET cells == HeaderCells(df[q])
    IN  [data |-> SubSeq(df, q + 1, Len(df)),
         date |-> FirstColumn(cells, KW_date),
         desc |-> FirstColumn(cells, KW_desc),
         dep |-> FirstColumn(cells, KW_dep),
         wd |-> FirstColumn(cells, KW_wd),
         amt |-> FirstColumn(cells, KW_amt),
         bal |-> BalanceColumn(cells)]

\* a data row with neither a parseable date nor a non-blank description
Dropped(r, v) == ParseDate(r[v.date]) = NaT /\ Strip(StrOf(r[v.desc])) = <<>>

NotDropped(v) == SelectSeq(v.data, LAMBDA r : ~Dropped(r, v))

\* credit minus debit with an absent side 0, else the amount column
ExpectedAmount(r, v) ==
    IF v.dep # 0 \/ v.wd # 0
    THEN NumSub(IF v.dep # 0 THEN ParseMoney(r[v.dep]) ELSE Num(0),
                IF v.wd # 0 THEN ParseMoney(r[v.wd]) ELSE Num(0))
    ELSE ParseMoney(r[v.amt])

\* the source rows of the records returned: the rows not dropped, or every
\* data row when as many records as data rows came back
SourceRows(rows, v) ==
    IF Len(rows) = Len(NotDropped(v)) THEN NotDropped(v) ELSE v.data

\* C12: in the fallback every returned record's amount is parsed(credit)
\* minus parsed(debit) of its own source row when the header has a credit or
\* a debit column (an absent side 0, an amount column ignored), and
\* parsed(amount) of its own source row otherwise.
C12_AmountFromOwnRow ==
    (FallbackRan /\ unified.kind = "frame") =>
        LET v == GenericView(Guessed, hdr)
            src == SourceRows(unified.rows, v)
        IN  \A k \in DOMAIN unified.rows :
                /\ k \in DOMAIN src
                /\ unified.rows[k].amount = ExpectedAmount(src[k], v)

\* C14: when a header, a date column, a description column and an amount
\* source are found, the fallback succeeds and returns exactly the rows not
\* dropped, each with the parsed balance of its own source row when a
\* balance column is recognized (also when rows were dropped), and with
\* balance 0 otherwise.
C14_RowsAndBalances ==
    (FallbackRan /\ ExpectedError = "none") =>
        LET v == GenericView(Guessed, hdr)
            kept == NotDropped(v)
        IN  /\ unified.kind = "frame"
            /\ Len(unified.rows) = Len(kept)
            /\ \A k \in DOMAIN kept :
                  /\ unified.rows[k].date = ParseDate(kept[k][v.date])
                  /\ unified.rows[k].description = kept[k][v.desc]
                  /\ unified.rows[k].balance =
                        IF v.bal # 0 THEN <<ParseMoney(kept[k][v.bal])>> ELSE <<Num(0)>>


-----------------------------------------------------------------------------
(* Claims on the stored tables.                                            *)

\* the terminal error loading or unifying the file of req ends in, "none"
\* when there is none of the four
TerminalError(req) ==
    IF ~Loads(req.filename, req.works) THEN "LoadFailure"
    ELSE IF /\ parse_woori_excel(req.table).kind = "none"
            /\ parse_kb_excel(req.table).kind = "none"
         THEN ExpectedErrorOf(DropEmpty(req.table))
         ELSE "none"

StoredUnchanged == UNCHANGED <<upload_batches, bank_transactions, transaction_tags, tx_seq>>

FailedUploadStep ==
    (/\ request'.op = "upload"
     /\ request'.precheck = "ok"
     /\ TerminalError(request') # "none")
    => /\ reply' = Reply(400, TerminalError(request'), 0, 0, 0, 0, 0)
       /\ StoredUnchanged

\* C13: an upload whose file ends loading or unification in LoadFailure,
\* HeaderNotFound, MissingColumn or NoAmountColumn answers with that error
\* alone, no rows and no batch, and leaves the stored tables as they were.
C13_FailedUploadStoresNothing == [][FailedUploadStep]_vars

\* a file without a header was refused while transactions were stored
C13_Witness ==
    /\ request.op = "upload"
    /\ reply.status = 400
    /\ reply.error = "HeaderNotFound"
    /\ bank_transactions # <<>>
    /\ upload_batches # <<>>

StoredFingerprints == {bank_transactions[k].fingerprint : k \in DOMAIN bank_transactions}

\* the fingerprints of the rows of the file of req
FileFingerprints(req) ==
    LET rows == UploadRows(ParseUpload(req), req.branch)
    IN  {RowFingerprint(rows[k]) : k \in DOMAIN rows}

NoSharedFingerprint ==
    \A i \in DOMAIN bank_transactions : \A j \in DOMAIN bank_transactions :
        bank_transactions[i].fingerprint = bank_transactions[j].fingerprint => i = j

UploadStep ==
    (request'.op = "upload" /\ reply'.status = 200 /\ ops' = ops + 1)
    => /\ reply'.inserted + reply'.skipped_duplicates = reply'.row_count
       /\ transaction_tags \subseteq transaction_tags'
       /\ FileFingerprints(request') \subseteq StoredFingerprints
            => /\ bank_transactions' = bank_transactions
               /\ transaction_tags' = transaction_tags
               /\ reply'.inserted = 0
               /\ reply'.skipped_duplicates = reply'.row_count

\* C15: no two stored transactions ever share a fingerprint; every upload
\* counts each row as inserted or skipped; an upload whose rows'
\* fingerprints are all stored already inserts no transaction and skips
\* every row; and an upload leaves the tag of every transaction stored
\* before it as it was.
C15_ReuploadKeepsStoredData == [](NoSharedFingerprint) /\ [][UploadStep]_vars

\* a file was uploaded again after one of its transactions was tagged by hand
C15_Witness ==
    /\ request.op = "upload"
    /\ reply.status = 200
    /\ reply.row_count > 0
    /\ reply.inserted = 0
    /\ reply.skipped_duplicates = reply.row_count
    /\ \E t \in transaction_tags : t.memo = <<"m">>

====
